---- MODULE Spec2Model ----
(***************************************************************************)
(* A model of src/script.js, the behaviour layer of a one-page portfolio:  *)
(* navigation toggle and scrollspy, project filter, project modal, contact *)
(* form, and the script's start-up on pages that lack expected elements.   *)
(*                                                                         *)
(* Strings the code inspects character by character (the form fields) are  *)
(* sequences of one-character strings; attribute values the code only      *)
(* compares or copies are TLA+ strings; None is JavaScript's null or an    *)
(* absent attribute.                                                       *)
(*                                                                         *)
(* The page has several independent widgets.  Each has its own             *)
(* specification (SpecNav, SpecFilter, SpecModal, SpecForm, SpecLoad),     *)
(* which holds the state of the other widgets fixed.                       *)
(***************************************************************************)
EXTENDS Integers, Sequences, FiniteSets, TLC

VARIABLES
  \* navigation (script.js 15-62)
  ariaExpanded,    \* navToggle's aria-expanded attribute: None, "true", "false"
  navDisplay,      \* nav.style.display: "" or "block"
  innerWidth,      \* window.innerWidth
  linkActive,      \* per section: its nav link carries the class 'active'
  scrolledTo,      \* the section last passed to scrollIntoView, 0 for none
  \* project filter (script.js 65-87, 226-233)
  category,        \* per card: data-category, None when absent
  display,         \* per card: style.display, "" or "none"
  opacity,         \* per card: style.opacity, "", "0" or "1"
  rafPending,      \* cards with a queued requestAnimationFrame callback
  timers,          \* queued setTimeout callbacks, oldest first, each a card
  activeFilter,    \* the filter of the button carrying 'active', None before a click
  \* modal (script.js 90-157)
  ariaHidden,      \* modal's aria-hidden attribute
  activeElement,   \* document.activeElement
  lastFocused,     \* the module variable lastFocused
  modalTitle,      \* modalTitle.textContent
  modalDesc,       \* modalDesc.textContent
  modalImage,      \* modalImage: [src, alt, display]
  overflow,        \* document.body.style.overflow
  dataset,         \* per .open-project button: its data-title, data-desc, data-image
  focusBeforeOpen, \* history: document.activeElement when the modal last went
                   \* from closed to open
  \* contact form (script.js 160-223)
  formAction,      \* form.getAttribute('action') || '', as a sequence of URL parts
  fName, fEmail, fMessage,   \* the fields' values
  statusText, statusColor,   \* status.textContent, status.style.color
  pending,         \* fetches awaiting their response
  location,        \* the last value assigned to window.location.href
  \* start-up (the whole script, top to bottom)
  present,         \* the expected elements the page holds
  pc,              \* the statement group the script is about to run
  attached,        \* the listeners attached so far
  error,           \* an exception was raised (by start-up or by a handler)
  \* history
  ev               \* the last event handled: [kind, arg]

navVars    == <<ariaExpanded, navDisplay, innerWidth, linkActive, scrolledTo>>
filterVars == <<category, display, opacity, rafPending, timers, activeFilter>>
modalVars  == <<ariaHidden, activeElement, lastFocused, modalTitle, modalDesc,
                modalImage, overflow, dataset, focusBeforeOpen>>
formVars   == <<formAction, fName, fEmail, fMessage, statusText, statusColor,
                pending, location>>
loadVars   == <<present, pc, attached, error>>
vars       == <<navVars, filterVars, modalVars, formVars, loadVars, ev>>

None == "<none>"

\* The elements that can hold focus.  Card 1 has no .open-project button;
\* every other card has one.  Other stands for the page's remaining controls
\* (links, filter buttons, form fields), Body for no control holding focus,
\* NoElement for null.
Card(c) == <<"card", c>>
Btn(c) == <<"btn", c>>
Close == <<"modalClose", 0>>
Other == <<"other", 0>>
Body == <<"body", 0>>
NoElement == <<"null", 0>>

\* window.location.href before the script has assigned to it.
NoLocation == [to |-> "", subject |-> <<>>, body |-> <<>>]

Event(kind, arg) == [kind |-> kind, arg |-> arg]

\* ---------------------------------------------------------------- bounds

NumSections   == 3    \* sections with a nav link
NumCards      == 3    \* project cards
MaxTimers     == 3    \* queued hide timers
MaxEmailLen   == 5    \* characters typed into the email field
MaxPending    == 2    \* fetches in flight

\* ------------------------------------------------------ program constants

MobileBreakpoint == 980    \* script.js 30: window.innerWidth <= 980

\* ------------------------------------------------- the rest of the page

\* The elements the script looks up and guards some uses of.
Expected == {"navToggle", "nav", "modal", "modalClose", "form", "status",
             "mailFallback"}
Listeners == {"navToggleClick", "navLinkClick", "triggerClick",
              "modalCloseClick", "modalBackdropClick", "keydown",
              "cardKeydown", "mailFallbackClick", "formSubmit"}

\* Every widget's state on a complete page right after the script has run.
NavIdle ==
  /\ ariaExpanded = "false" /\ navDisplay = "" /\ innerWidth = MobileBreakpoint
  /\ linkActive = [s \in 1..NumSections |-> FALSE] /\ scrolledTo = 0
FilterIdle ==
  /\ category = [c \in 1..NumCards |-> None]
  /\ display = [c \in 1..NumCards |-> ""]
  /\ opacity = [c \in 1..NumCards |-> ""]
  /\ rafPending = {} /\ timers = <<>> /\ activeFilter = None
ModalIdle ==
  /\ ariaHidden = "true" /\ activeElement = Body /\ lastFocused = NoElement
  /\ modalTitle = "" /\ modalDesc = ""
  /\ modalImage = [src |-> "", alt |-> "", display |-> ""]
  /\ overflow = "" /\ focusBeforeOpen = NoElement
  /\ dataset = [c \in 2..NumCards |-> [title |-> None, desc |-> None, image |-> None]]
FormIdle ==
  /\ formAction = <<>> /\ fName = <<>> /\ fEmail = <<>> /\ fMessage = <<>>
  /\ statusText = "" /\ statusColor = "" /\ pending = 0 /\ location = NoLocation
LoadDone ==
  /\ present = Expected /\ pc = "done" /\ attached = Listeners /\ error = FALSE

\* ------------------------------------------------------------ navigation

Sections == 1..NumSections
\* A nav link's target: a section, or 0 for a link whose href names no
\* element of the page.
LinkTargets == 0..NumSections
Widths == {MobileBreakpoint - 1, MobileBreakpoint, MobileBreakpoint + 1}

\* script.js 17-25: the nav toggle's click listener.
NavToggleClick ==
  LET expanded == ariaExpanded = "true" IN
  /\ ariaExpanded' = IF expanded THEN "false" ELSE "true"
  /\ navDisplay' = IF navDisplay = "block" THEN "" ELSE "block"
  /\ ev' = Event("navToggle", 0)
  /\ UNCHANGED <<innerWidth, linkActive, scrolledTo>>
  /\ UNCHANGED <<filterVars, modalVars, formVars, loadVars>>

\* CloseMobileNav with line 32 left out.
CloseMobileNavKeepsAttribute ==
  IF innerWidth <= MobileBreakpoint /\ navDisplay = "block"
  THEN navDisplay' = "" /\ UNCHANGED ariaExpanded
  ELSE UNCHANGED <<navDisplay, ariaExpanded>>

\* script.js 29-34: the first click listener of a link inside #site-nav.
CloseMobileNav ==
  IF innerWidth <= MobileBreakpoint /\ navDisplay = "block"
  THEN navDisplay' = "" /\ ariaExpanded' = "false"
  ELSE UNCHANGED <<navDisplay, ariaExpanded>>

\* script.js 39-48: the second click listener of the same link (it matches
\* a[href^="#"]): scroll to the target when the page holds it.
SmoothScroll(t) ==
  scrolledTo' = IF t \in Sections THEN t ELSE scrolledTo

\* A click on the nav link whose href is "#" + section t: both listeners run.
NavLinkClick(t) ==
  /\ CloseMobileNav
  /\ SmoothScroll(t)
  /\ ev' = Event("navLink", t)
  /\ UNCHANGED <<innerWidth, linkActive>>
  /\ UNCHANGED <<filterVars, modalVars, formVars, loadVars>>

\* script.js 54-60: the observer's callback, for one entry (forEach treats the
\* entries one by one).
ObserverEntry(s, isIntersecting) ==
  /\ linkActive' = [linkActive EXCEPT ![s] = isIntersecting]
  /\ ev' = Event("observe", s)
  /\ UNCHANGED <<ariaExpanded, navDisplay, innerWidth, scrolledTo>>
  /\ UNCHANGED <<filterVars, modalVars, formVars, loadVars>>

\* The user resizes the window.
Resize(w) ==
  /\ w # innerWidth
  /\ innerWidth' = w
  /\ ev' = Event("resize", w)
  /\ UNCHANGED <<ariaExpanded, navDisplay, linkActive, scrolledTo>>
  /\ UNCHANGED <<filterVars, modalVars, formVars, loadVars>>

\* A collapsed navigation: the markup gives aria-expanded="false" or omits it.
InitNav ==
  /\ ariaExpanded \in {None, "false"}
  /\ navDisplay = ""
  /\ innerWidth \in Widths
  /\ linkActive = [s \in Sections |-> FALSE]
  /\ scrolledTo = 0
  /\ FilterIdle /\ ModalIdle /\ FormIdle /\ LoadDone
  /\ ev = Event("load", 0)

NextNav ==
  \/ NavToggleClick
  \/ \E t \in LinkTargets : NavLinkClick(t)
  \/ \E s \in Sections, b \in BOOLEAN : ObserverEntry(s, b)
  \/ \E w \in Widths : Resize(w)

SpecNav == InitNav /\ [][NextNav]_vars

\* C10: the toggle's aria-expanded is 'true' exactly when the panel's inline
\* display is 'block', after any sequence of toggle clicks, link clicks and
\* resizes from a collapsed navigation.
NavAttributeMatchesDisplay ==
  (ariaExpanded = "true") <=> (navDisplay = "block")

\* A link click at a narrow width has just collapsed an expanded panel.
NavCollapsedByLink ==
  /\ ev.kind = "navLink"
  /\ innerWidth <= MobileBreakpoint
  /\ ariaExpanded = "false" /\ navDisplay = ""

\* -------------------------------------------------------- project filter

Cards == 1..NumCards
\* The data-filter values of the filter buttons, and the data-category values
\* a card may carry (None: the attribute is absent).
Filters == {"all", "web", "ml"}
Categories == {None, "web", "ml"}

\* script.js 70: p.dataset.category || ''
CategoryOf(c) == IF category[c] = None THEN "" ELSE category[c]

\* script.js 71: the test that decides whether a card is shown.
Shown(filter, c) == filter = "all" \/ CategoryOf(c) = filter

\* The cards, in document order, that fail the test.
RECURSIVE HiddenFrom(_, _)
HiddenFrom(filter, c) ==
  IF c > NumCards THEN <<>>
  ELSE (IF Shown(filter, c) THEN <<>> ELSE <<c>>) \o HiddenFrom(filter, c + 1)

\* script.js 68-79: applyFilter.  A shown card gets display '' at once and
\* opacity 1 in the next animation frame; a hidden card gets opacity 0 at
\* once and display 'none' from a 180 ms timer.
applyFilter(filter) ==
  /\ display' = [c \in Cards |-> IF Shown(filter, c) THEN "" ELSE display[c]]
  /\ opacity' = [c \in Cards |-> IF Shown(filter, c) THEN opacity[c] ELSE "0"]
  /\ rafPending' = rafPending \cup {c \in Cards : Shown(filter, c)}
  /\ timers' = timers \o HiddenFrom(filter, 1)

\* script.js 82-86: a filter button's click listener.
FilterClick(f) ==
  /\ Len(timers) + Len(HiddenFrom(f, 1)) <= MaxTimers
  /\ activeFilter' = f
  /\ applyFilter(f)
  /\ ev' = Event("filter", f)
  /\ UNCHANGED category
  /\ UNCHANGED <<navVars, modalVars, formVars, loadVars>>

\* The browser runs the queued animation-frame callbacks (script.js 73, and
\* 227-232 for the one queued at start-up): each sets its card's opacity to 1.
AnimationFrame ==
  /\ rafPending # {}
  /\ opacity' = [c \in Cards |-> IF c \in rafPending THEN "1" ELSE opacity[c]]
  /\ rafPending' = {}
  /\ ev' = Event("frame", "")
  /\ UNCHANGED <<category, display, timers, activeFilter>>
  /\ UNCHANGED <<navVars, modalVars, formVars, loadVars>>

\* The oldest hide timer fires (script.js 76).  Every timer has the same
\* delay, so they fire in the order they were set.
TimerFire ==
  /\ timers # <<>>
  /\ display' = [display EXCEPT ![Head(timers)] = "none"]
  /\ timers' = Tail(timers)
  /\ ev' = Event("timer", "")
  /\ UNCHANGED <<category, opacity, rafPending, activeFilter>>
  /\ UNCHANGED <<navVars, modalVars, formVars, loadVars>>

\* script.js 226-233: unless the user prefers reduced motion, start-up queues
\* one frame callback that sets every card's opacity to 1.
InitFilter ==
  /\ category \in [Cards -> Categories]
  /\ display = [c \in Cards |-> ""]
  /\ opacity = [c \in Cards |-> ""]
  /\ \E isReducedMotion \in BOOLEAN :
       rafPending = IF isReducedMotion THEN {} ELSE Cards
  /\ timers = <<>>
  /\ activeFilter = None
  /\ NavIdle /\ ModalIdle /\ FormIdle /\ LoadDone
  /\ ev = Event("load", "")

NextFilter ==
  \/ \E f \in Filters : FilterClick(f)
  \/ AnimationFrame
  \/ TimerFire

SpecFilter == InitFilter /\ [][NextFilter]_vars

\* C1: once every pending timer and frame callback has run, the cards that
\* match the last filter applied are visible (display not 'none', opacity 1)
\* and every other card is hidden (display 'none').
FilterSettles ==
  (activeFilter # None /\ timers = <<>> /\ rafPending = {}) =>
    \A c \in Cards :
      IF activeFilter = "all" \/ CategoryOf(c) = activeFilter
      THEN display[c] # "none" /\ opacity[c] = "1"
      ELSE display[c] = "none"

\* ------------------------------------------------------------------ modal

Triggers == {c \in Cards : c >= 2}

\* The data attributes an .open-project button may carry.
DataCombos ==
  { [title |-> "Alpha", desc |-> "About alpha", image |-> "alpha.png"],
    [title |-> None,    desc |-> None,          image |-> None],
    [title |-> "Beta",  desc |-> "",            image |-> None] }

\* The focusable elements in document order: each card, then its button;
\* the rest of the page's controls; the modal's close control.
RECURSIVE TabOrderFrom(_)
TabOrderFrom(c) ==
  IF c > NumCards THEN <<Other, Close>>
  ELSE <<Card(c)>> \o (IF c \in Triggers THEN <<Btn(c)>> ELSE <<>>)
       \o TabOrderFrom(c + 1)
TabOrder == TabOrderFrom(1)
PageControls == {TabOrder[i] : i \in 1..Len(TabOrder)} \ {Close}

IndexOf(e) == CHOOSE i \in 1..Len(TabOrder) : TabOrder[i] = e

\* The browser's own handling of Tab: focus moves to the next control in
\* document order (the previous one with Shift), wrapping around; from no
\* control, to the first (the last).  The script leaves the page behind the
\* open modal focusable.
DefaultTab(from, shiftKey) ==
  LET n == Len(TabOrder) IN
  IF from = Body THEN (IF shiftKey THEN TabOrder[n] ELSE TabOrder[1])
  ELSE IF shiftKey THEN TabOrder[IF IndexOf(from) = 1 THEN n ELSE IndexOf(from) - 1]
  ELSE TabOrder[IF IndexOf(from) = n THEN 1 ELSE IndexOf(from) + 1]

\* x || '' for an attribute value x.
OrEmpty(x) == IF x = None THEN "" ELSE x

\* openModal with line 100 run only for a non-empty description.
openModalKeepsStaleDesc(title, desc, image) ==
  /\ lastFocused' = activeElement
  /\ modalTitle' = title
  /\ modalDesc' = IF desc # "" THEN desc ELSE modalDesc
  /\ modalImage' = IF image # ""
                   THEN [src |-> image, alt |-> title, display |-> ""]
                   ELSE [modalImage EXCEPT !.display = "none"]
  /\ ariaHidden' = "false"
  /\ activeElement' = Close
  /\ overflow' = "hidden"
  /\ focusBeforeOpen' = IF ariaHidden = "false" THEN focusBeforeOpen ELSE activeElement

\* script.js 97-112: openModal.
openModal(title, desc, image) ==
  /\ lastFocused' = activeElement
  /\ modalTitle' = title
  /\ modalDesc' = desc
  /\ modalImage' = IF image # ""
                   THEN [src |-> image, alt |-> title, display |-> ""]
                   ELSE [modalImage EXCEPT !.display = "none"]
  /\ ariaHidden' = "false"
  /\ activeElement' = Close
  /\ overflow' = "hidden"
  /\ focusBeforeOpen' = IF ariaHidden = "false" THEN focusBeforeOpen ELSE activeElement

\* script.js 114-118: closeModal.  Every element has a focus method, so the
\* test on line 116 is a test for null.
closeModal ==
  /\ ariaHidden' = "true"
  /\ activeElement' = IF lastFocused # NoElement THEN lastFocused ELSE activeElement
  /\ overflow' = ""
  /\ UNCHANGED <<lastFocused, modalTitle, modalDesc, modalImage, focusBeforeOpen>>

\* script.js 121-126: an .open-project button's click listener.
TriggerClickHandler(c) ==
  openModal(OrEmpty(dataset[c].title), OrEmpty(dataset[c].desc),
            OrEmpty(dataset[c].image))

\* A click on card c's button: by pointer, or by Enter or Space on the
\* focused button.  The listener does not look at the modal's state.
ClickTrigger(c) ==
  /\ TriggerClickHandler(c)
  /\ ev' = Event("trigger", c)
  /\ UNCHANGED dataset
  /\ UNCHANGED <<navVars, filterVars, formVars, loadVars>>

\* script.js 151-156: a card's keydown listener, for Enter pressed while the
\* card or its button holds focus: click the card's button if it has one.
\* (The document's keydown listener runs too and does nothing for Enter.)
CardEnter(c) ==
  /\ activeElement \in {Card(c), Btn(c)}
  /\ IF c \in Triggers
     THEN TriggerClickHandler(c)
     ELSE UNCHANGED <<ariaHidden, activeElement, lastFocused, modalTitle,
                      modalDesc, modalImage, overflow, focusBeforeOpen>>
  /\ ev' = Event("cardEnter", c)
  /\ UNCHANGED dataset
  /\ UNCHANGED <<navVars, filterVars, formVars, loadVars>>

\* script.js 129: a click on the close control, which the open modal shows.
CloseClick ==
  /\ ariaHidden = "false"
  /\ closeModal
  /\ ev' = Event("closeClick", TRUE)
  /\ UNCHANGED dataset
  /\ UNCHANGED <<navVars, filterVars, formVars, loadVars>>

\* script.js 130-132: a click inside the open modal; it closes only when the
\* click's target is the modal container itself (the backdrop).
ModalClick(onBackdrop) ==
  /\ ariaHidden = "false"
  /\ IF onBackdrop
     THEN closeModal
     ELSE UNCHANGED <<ariaHidden, activeElement, lastFocused, modalTitle,
                      modalDesc, modalImage, overflow, focusBeforeOpen>>
  /\ ev' = Event("modalClick", onBackdrop)
  /\ UNCHANGED dataset
  /\ UNCHANGED <<navVars, filterVars, formVars, loadVars>>

\* KeydownEscape without the test of aria-hidden on line 136.
KeydownEscapeAlwaysCloses ==
  /\ closeModal
  /\ ev' = Event("escape", ariaHidden = "false")
  /\ UNCHANGED dataset
  /\ UNCHANGED <<navVars, filterVars, formVars, loadVars>>

\* script.js 135-138: the document's keydown listener, for Escape.
KeydownEscape ==
  /\ IF ariaHidden = "false"
     THEN closeModal
     ELSE UNCHANGED <<ariaHidden, activeElement, lastFocused, modalTitle,
                      modalDesc, modalImage, overflow, focusBeforeOpen>>
  /\ ev' = Event("escape", ariaHidden = "false")
  /\ UNCHANGED dataset
  /\ UNCHANGED <<navVars, filterVars, formVars, loadVars>>

\* script.js 139-146: the document's keydown listener, for Tab, followed by
\* the browser's own handling unless the listener called preventDefault.
\* While the modal is closed its close control takes no part in tabbing.
KeydownTab(shiftKey) ==
  LET trapped == ariaHidden = "false" /\ activeElement = Close /\ ~shiftKey
      next == DefaultTab(activeElement, shiftKey)
  IN
  /\ activeElement' =
       IF trapped THEN Close
       ELSE IF ariaHidden = "true" /\ next = Close
            THEN DefaultTab(Close, shiftKey)
            ELSE next
  /\ ev' = Event("tab", [shiftKey |-> shiftKey, defaultPrevented |-> trapped])
  /\ UNCHANGED <<ariaHidden, lastFocused, modalTitle, modalDesc, modalImage,
                 overflow, focusBeforeOpen, dataset>>
  /\ UNCHANGED <<navVars, filterVars, formVars, loadVars>>

\* While the modal is closed the user moves focus with the pointer: to a
\* control of the page, or away from every control.
FocusMove(e) ==
  /\ ariaHidden = "true"
  /\ e # activeElement
  /\ activeElement' = e
  /\ ev' = Event("focus", e)
  /\ UNCHANGED <<ariaHidden, lastFocused, modalTitle, modalDesc, modalImage,
                 overflow, focusBeforeOpen, dataset>>
  /\ UNCHANGED <<navVars, filterVars, formVars, loadVars>>

InitModal ==
  /\ ariaHidden = "true"
  /\ activeElement = Body
  /\ lastFocused = NoElement
  /\ modalTitle = "" /\ modalDesc = ""
  /\ modalImage = [src |-> "", alt |-> "", display |-> ""]
  /\ overflow = ""
  /\ dataset \in [Triggers -> DataCombos]
  /\ focusBeforeOpen = NoElement
  /\ NavIdle /\ FilterIdle /\ FormIdle /\ LoadDone
  /\ ev = Event("load", 0)

NextModal ==
  \/ \E c \in Triggers : ClickTrigger(c)
  \/ \E c \in Cards : CardEnter(c)
  \/ CloseClick
  \/ \E b \in BOOLEAN : ModalClick(b)
  \/ KeydownEscape
  \/ \E shiftKey \in BOOLEAN : KeydownTab(shiftKey)
  \/ \E e \in PageControls \cup {Body} : FocusMove(e)

SpecModal == InitModal /\ [][NextModal]_vars

\* The last event ran closeModal.
ClosedByLastEvent ==
  \/ ev.kind = "closeClick"
  \/ ev.kind = "modalClick" /\ ev.arg
  \/ ev.kind = "escape" /\ ev.arg

\* C2: every close moves focus to the element that held focus immediately
\* before the modal went from closed to open, also when openModal ran again
\* while the modal was open.
CloseRestoresFocusBeforeOpen ==
  ClosedByLastEvent => activeElement = focusBeforeOpen

\* C5: an Escape keydown closes an open modal, and while the modal is closed
\* it changes none of aria-hidden, the focused element, the body's scroll lock
\* and lastFocused.
EscapeClosesOnlyOpenModal ==
  [][ev'.kind = "escape" =>
       IF ariaHidden = "false"
       THEN ariaHidden' = "true"
       ELSE UNCHANGED <<ariaHidden, activeElement, overflow, lastFocused>>]_vars

\* Escape was pressed on a closed modal whose lastFocused is another element
\* than the focused one.
EscapeOnClosedModal ==
  /\ ev.kind = "escape" /\ ~ev.arg
  /\ ariaHidden = "true"
  /\ lastFocused # NoElement /\ lastFocused # activeElement

\* C6: right after openModal has run for a trigger, the modal's title and
\* description are the trigger's data-title and data-desc, '' for an absent
\* attribute, whatever an earlier open left there.
OpenShowsTriggerContent ==
  (ev.kind \in {"trigger", "cardEnter"} /\ ev.arg \in Triggers) =>
    /\ modalTitle = (IF dataset[ev.arg].title = None THEN "" ELSE dataset[ev.arg].title)
    /\ modalDesc = (IF dataset[ev.arg].desc = None THEN "" ELSE dataset[ev.arg].desc)

\* A trigger without data attributes was opened over the content of an
\* earlier open (whose image is still the image element's src).
OpenedOverEarlierContent ==
  /\ ev.kind = "trigger"
  /\ dataset[ev.arg] = [title |-> None, desc |-> None, image |-> None]
  /\ modalImage.src = "alpha.png"
  /\ modalTitle = "" /\ modalDesc = ""

\* C9: after a Tab keydown while the modal is open, with or without Shift and
\* whichever element held focus, the default focus move was suppressed and
\* focus is on the close control.
TabKeepsFocusOnClose ==
  (ev.kind = "tab" /\ ariaHidden = "false") =>
    ev.arg.defaultPrevented /\ activeElement = Close

\* ----------------------------------------------------------- contact form

\* A field's value is a sequence of characters.
Alphabet == {"a", "@", ".", " "}
WhiteSpace == {" "}
EmailValues == UNION {[1..n -> Alphabet] : n \in 0..MaxEmailLen}
NameValues == {<<>>, <<" ">>, <<"a">>}
MessageValues == {<<>>, <<"a", " ">>}
\* The action attribute: absent or empty, the remote endpoint, another URL.
FormActions == {<<>>, <<"https://", "formspree.io", "/f/abc">>, <<"/contact">>}

\* String.prototype.trim (script.js 166-168, 179-181).
RECURSIVE TrimStart(_)
TrimStart(s) ==
  IF s # <<>> /\ Head(s) \in WhiteSpace THEN TrimStart(Tail(s)) ELSE s
RECURSIVE TrimEnd(_)
TrimEnd(s) ==
  IF s # <<>> /\ s[Len(s)] \in WhiteSpace
  THEN TrimEnd(SubSeq(s, 1, Len(s) - 1)) ELSE s
Trim(s) == TrimEnd(TrimStart(s))

\* String.prototype.includes (script.js 197), on URL parts.
Includes(s, part) == \E i \in 1..Len(s) : s[i] = part

\* script.js 189: the pattern ^\S+@\S+\.\S+$ as a list of items, and the
\* same pattern with its first \S+ weakened to \S*.
EmailPattern ==
  << [kind |-> "\\S+", ch |-> ""], [kind |-> "lit", ch |-> "@"],
     [kind |-> "\\S+", ch |-> ""], [kind |-> "lit", ch |-> "."],
     [kind |-> "\\S+", ch |-> ""] >>
LoosePattern ==
  << [kind |-> "\\S*", ch |-> ""], [kind |-> "lit", ch |-> "@"],
     [kind |-> "\\S+", ch |-> ""], [kind |-> "lit", ch |-> "."],
     [kind |-> "\\S+", ch |-> ""] >>

\* A backtracking matcher: does s from position i match the items of pat from
\* k on, up to the end of s?  A repetition first tries to take one more
\* character and then to move on.
RECURSIVE MatchFrom(_, _, _, _)
MatchFrom(pat, s, i, k) ==
  IF k > Len(pat) THEN i = Len(s) + 1
  ELSE
    CASE pat[k].kind = "lit" ->
           i <= Len(s) /\ s[i] = pat[k].ch /\ MatchFrom(pat, s, i + 1, k + 1)
      [] pat[k].kind = "\\S+" ->
           /\ i <= Len(s) /\ s[i] \notin WhiteSpace
           /\ (MatchFrom(pat, s, i + 1, k) \/ MatchFrom(pat, s, i + 1, k + 1))
      [] pat[k].kind = "\\S*" ->
           \/ (i <= Len(s) /\ s[i] \notin WhiteSpace /\ MatchFrom(pat, s, i + 1, k))
           \/ MatchFrom(pat, s, i, k + 1)

RegexTestLoose(email) == MatchFrom(LoosePattern, email, 1, 1)

\* script.js 189: /^\S+@\S+\.\S+$/.test(email)
RegexTest(email) == MatchFrom(EmailPattern, email, 1, 1)

\* encodeURIComponent: one-to-one on the strings it is given.
Encode(parts) == <<"encodeURIComponent">> \o parts

\* script.js 169-171 and 218-220: the mailto address.
Mailto(subjectName, name, email, message) ==
  [to |-> "monishp2212@gmail.com",
   subject |-> Encode(<<"Contact from ", subjectName>>),
   body |-> Encode(<<message, "\n\n- ", name, "\n", email>>)]

Website == <<"W", "e", "b", "s", "i", "t", "e">>

\* The status texts (the source's em dash is written - here).
PleaseComplete  == "Please complete all fields."
PleaseValidMail == "Please enter a valid email address."
Sending         == "Sending..."
Thanks          == "Thanks - message sent."
ServerError     == "<data.error>"
Failed          == "Submission failed - try the email fallback."
NetworkError    == "Network error - please use the email fallback."

\* What settles a fetch: an ok response; a failure response whose JSON body
\* has a non-empty error; one whose body has none; one whose body is not
\* JSON; a rejected fetch.
Outcomes == {"ok", "error in body", "no error in body", "body not JSON",
             "network error"}

\* script.js 176-222, up to the await on line 202: the submit listener.
Submit ==
  LET name == Trim(fName)
      email == Trim(fEmail)
      message == Trim(fMessage)
  IN
  /\ IF name = <<>> \/ email = <<>> \/ message = <<>>
     THEN /\ statusText' = PleaseComplete
          /\ statusColor' = "tomato"
          /\ UNCHANGED <<pending, location>>
     ELSE IF ~RegexTest(email)
     THEN /\ statusText' = PleaseValidMail
          /\ statusColor' = "tomato"
          /\ UNCHANGED <<pending, location>>
     ELSE IF Includes(formAction, "formspree.io")
     THEN /\ pending < MaxPending
          /\ statusText' = Sending
          /\ statusColor' = "var(--muted)"
          /\ pending' = pending + 1
          /\ UNCHANGED location
     ELSE /\ statusText' = ""
          /\ location' = Mailto(name, name, email, message)
          /\ UNCHANGED <<statusColor, pending>>
  /\ ev' = Event("submit", "")
  /\ UNCHANGED <<formAction, fName, fEmail, fMessage>>
  /\ UNCHANGED <<navVars, filterVars, modalVars, loadVars>>

\* Response with form.reset() run for every outcome.
ResponseAlwaysResets(outcome) ==
  /\ pending > 0
  /\ pending' = pending - 1
  /\ statusText' = CASE outcome = "ok" -> Thanks
                     [] outcome = "error in body" -> ServerError
                     [] outcome = "network error" -> NetworkError
                     [] OTHER -> Failed
  /\ statusColor' = IF outcome = "ok" THEN "limegreen" ELSE "tomato"
  /\ fName' = <<>> /\ fEmail' = <<>> /\ fMessage' = <<>>
  /\ ev' = Event("response", outcome)
  /\ UNCHANGED <<formAction, location>>
  /\ UNCHANGED <<navVars, filterVars, modalVars, loadVars>>

\* Response with the mailto fallback of lines 218-220 run for every failure.
ResponseFallsBackToMailto(outcome) ==
  /\ pending > 0
  /\ pending' = pending - 1
  /\ statusText' = CASE outcome = "ok" -> Thanks
                     [] outcome = "error in body" -> ServerError
                     [] outcome = "network error" -> NetworkError
                     [] OTHER -> Failed
  /\ statusColor' = IF outcome = "ok" THEN "limegreen" ELSE "tomato"
  /\ IF outcome = "ok"
     THEN fName' = <<>> /\ fEmail' = <<>> /\ fMessage' = <<>> /\ UNCHANGED location
     ELSE /\ location' = Mailto(Trim(fName), Trim(fName), Trim(fEmail), Trim(fMessage))
          /\ UNCHANGED <<fName, fEmail, fMessage>>
  /\ ev' = Event("response", outcome)
  /\ UNCHANGED formAction
  /\ UNCHANGED <<navVars, filterVars, modalVars, loadVars>>

\* script.js 203-215: the submit listener after the await, for a fetch that
\* has settled.  form.reset() gives every field its default value, ''.
Response(outcome) ==
  /\ pending > 0
  /\ pending' = pending - 1
  /\ statusText' = CASE outcome = "ok" -> Thanks
                     [] outcome = "error in body" -> ServerError
                     [] outcome = "network error" -> NetworkError
                     [] OTHER -> Failed
  /\ statusColor' = IF outcome = "ok" THEN "limegreen" ELSE "tomato"
  /\ IF outcome = "ok"
     THEN fName' = <<>> /\ fEmail' = <<>> /\ fMessage' = <<>>
     ELSE UNCHANGED <<fName, fEmail, fMessage>>
  /\ ev' = Event("response", outcome)
  /\ UNCHANGED <<formAction, location>>
  /\ UNCHANGED <<navVars, filterVars, modalVars, loadVars>>

\* script.js 165-172: the mail-fallback control's click listener.
MailFallbackClick ==
  LET name == Trim(fName)
      email == Trim(fEmail)
      message == Trim(fMessage)
  IN
  /\ location' = Mailto(IF name = <<>> THEN Website ELSE name, name, email, message)
  /\ ev' = Event("mailFallback", "")
  /\ UNCHANGED <<formAction, fName, fEmail, fMessage, statusText, statusColor,
                 pending>>
  /\ UNCHANGED <<navVars, filterVars, modalVars, loadVars>>

\* The user has filled in the form.
InitForm ==
  /\ formAction \in FormActions
  /\ fName \in NameValues
  /\ fEmail \in EmailValues
  /\ fMessage \in MessageValues
  /\ statusText = "" /\ statusColor = ""
  /\ pending = 0
  /\ location = NoLocation
  /\ NavIdle /\ FilterIdle /\ ModalIdle /\ LoadDone
  /\ ev = Event("load", "")

NextForm ==
  \/ Submit
  \/ \E o \in Outcomes : Response(o)
  \/ MailFallbackClick

SpecForm == InitForm /\ [][NextForm]_vars

\* The shape: non-space characters, '@', non-space characters, '.',
\* non-space characters.
EmailShape(s) ==
  /\ \A i \in 1..Len(s) : s[i] # " "
  /\ \E i, j \in 1..Len(s) :
       /\ 1 < i /\ s[i] = "@"
       /\ i + 1 < j /\ s[j] = "."
       /\ j < Len(s)

FieldsPassValidation ==
  /\ Trim(fName) # <<>> /\ Trim(fMessage) # <<>>
  /\ EmailShape(Trim(fEmail))

ErrorMessages == {ServerError, Failed, NetworkError}

\* C3: a success response resets the form and shows the success message; a
\* failure response or a network error shows an error message and leaves the
\* fields' values as they are.
RemoteResponseHandled ==
  [][ev'.kind = "response" =>
       IF ev'.arg = "ok"
       THEN /\ statusText' = Thanks
            /\ fName' = <<>> /\ fEmail' = <<>> /\ fMessage' = <<>>
       ELSE /\ statusText' \in ErrorMessages
            /\ UNCHANGED <<fName, fEmail, fMessage>>]_vars

\* A failure response has been handled with the form still filled in.
FailureKeptFields ==
  /\ ev.kind = "response" /\ ev.arg = "no error in body"
  /\ statusText = Failed
  /\ FieldsPassValidation

\* C4: a submit whose trimmed email lacks the shape is blocked: a validation
\* message is shown, no request is issued, no navigation happens and the
\* fields keep their values.
InvalidEmailBlocksSubmit ==
  [][(ev'.kind = "submit" /\ ~EmailShape(Trim(fEmail))) =>
       /\ statusText' \in {PleaseComplete, PleaseValidMail}
       /\ UNCHANGED <<pending, location, fName, fEmail, fMessage>>]_vars

\* A submit with name and message filled in and a non-empty email that lacks
\* the shape has been refused.
MalformedEmailRefused ==
  /\ ev.kind = "submit"
  /\ Trim(fName) # <<>> /\ Trim(fMessage) # <<>>
  /\ Trim(fEmail) # <<>> /\ ~EmailShape(Trim(fEmail))
  /\ \E i \in 1..Len(fEmail) : fEmail[i] = "@"
  /\ statusText = PleaseValidMail
  /\ pending = 0 /\ location = NoLocation

LoadStep(from, to, listener) ==
  /\ pc = from
  /\ pc' = to
  /\ attached' = attached \cup listener
  /\ ev' = Event("load", from)
  /\ UNCHANGED <<present, error>>
  /\ UNCHANGED <<navVars, filterVars, modalVars, formVars>>

\* script.js 15-25: navToggle && navToggle.addEventListener(...)
LoadNavToggle ==
  LoadStep("navToggle", "navLinks",
           IF "navToggle" \in present THEN {"navToggleClick"} ELSE {})

\* script.js 28-35: qsa('#site-nav a').forEach(...)
LoadNavLinks ==
  LoadStep("navLinks", "triggers",
           IF "nav" \in present THEN {"navLinkClick"} ELSE {})

\* script.js 120-127: qsa('.open-project').forEach(...)
LoadTriggers == LoadStep("triggers", "modalClose", {"triggerClick"})

\* script.js 129: modalClose && modalClose.addEventListener(...)
LoadModalClose ==
  LoadStep("modalClose", "modalBackdrop",
           IF "modalClose" \in present THEN {"modalCloseClick"} ELSE {})

\* script.js 130-132: modal.addEventListener(...), with no test of modal.
LoadModalBackdrop ==
  /\ pc = "modalBackdrop"
  /\ IF "modal" \in present
     THEN /\ pc' = "keydown"
          /\ attached' = attached \cup {"modalBackdropClick"}
          /\ UNCHANGED error
     ELSE /\ pc' = "aborted"
          /\ error' = TRUE
          /\ UNCHANGED attached
  /\ ev' = Event("load", "modalBackdrop")
  /\ UNCHANGED present
  /\ UNCHANGED <<navVars, filterVars, modalVars, formVars>>

\* script.js 135-147: document.addEventListener('keydown', ...)
LoadKeydown == LoadStep("keydown", "cardKeydown", {"keydown"})

\* script.js 150-157: projects.forEach(card => card.addEventListener(...))
LoadCardKeydown == LoadStep("cardKeydown", "mailFallback", {"cardKeydown"})

\* script.js 164-173: if (mailFallback) { ... }
LoadMailFallback ==
  LoadStep("mailFallback", "form",
           IF "mailFallback" \in present THEN {"mailFallbackClick"} ELSE {})

\* script.js 175-223: if (form) { ... }
LoadForm ==
  LoadStep("form", "done",
           IF "form" \in present THEN {"formSubmit"} ELSE {})

Loaded == pc \in {"done", "aborted"}

\* A listener's run: whether it raises, and what it does to the state kept.
Handled(kind, raises) ==
  /\ error' = (error \/ raises)
  /\ ev' = Event(kind, raises)
  /\ UNCHANGED <<present, pc, attached>>
  /\ UNCHANGED <<innerWidth, linkActive, scrolledTo>>
  /\ UNCHANGED <<activeElement, lastFocused, modalTitle, modalDesc, modalImage,
                 overflow, dataset, focusBeforeOpen>>
  /\ UNCHANGED <<filterVars, formVars>>

\* script.js 17-25 on such a page: line 19 needs navToggle, line 20 nav.
LoadedNavToggleClick ==
  /\ Loaded /\ "navToggleClick" \in attached
  /\ ariaExpanded' = IF ariaExpanded = "true" THEN "false" ELSE "true"
  /\ IF "nav" \in present
     THEN navDisplay' = IF navDisplay = "block" THEN "" ELSE "block"
     ELSE UNCHANGED navDisplay
  /\ UNCHANGED ariaHidden
  /\ Handled("navToggle", "nav" \notin present)

\* script.js 29-34 on such a page: line 32 needs navToggle.
LoadedNavLinkClick ==
  /\ Loaded /\ "navLinkClick" \in attached
  /\ IF innerWidth <= MobileBreakpoint /\ navDisplay = "block"
     THEN /\ navDisplay' = ""
          /\ ariaExpanded' = IF "navToggle" \in present THEN "false" ELSE ariaExpanded
          /\ Handled("navLink", "navToggle" \notin present)
     ELSE /\ UNCHANGED <<navDisplay, ariaExpanded>>
          /\ Handled("navLink", FALSE)
  /\ UNCHANGED ariaHidden

\* script.js 97-112 on such a page, run by a button's click listener or by a
\* card's keydown listener: line 99 needs the modal's title, line 108 the
\* modal, line 110 the close control.
LoadedOpen(kind) ==
  /\ Loaded
  /\ IF kind = "trigger" THEN "triggerClick" \in attached
                         ELSE {"triggerClick", "cardKeydown"} \subseteq attached
  /\ ariaHidden' = IF "modal" \in present THEN "false" ELSE ariaHidden
  /\ UNCHANGED <<navDisplay, ariaExpanded>>
  /\ Handled(kind, "modal" \notin present \/ "modalClose" \notin present)

\* script.js 114-118 on such a page, run by the close control's click
\* listener, the backdrop's or Escape: line 115 needs the modal.  The close
\* control can be clicked when the page holds it and no closed modal hides it.
LoadedClose(kind) ==
  /\ Loaded
  /\ CASE kind = "closeClick" ->
            "modalCloseClick" \in attached
              /\ ("modal" \notin present \/ ariaHidden = "false")
       [] kind = "modalClick" ->
            "modalBackdropClick" \in attached /\ ariaHidden = "false"
       [] kind = "escape" ->
            "keydown" \in attached /\ ariaHidden = "false"
  /\ ariaHidden' = IF "modal" \in present THEN "true" ELSE ariaHidden
  /\ UNCHANGED <<navDisplay, ariaExpanded>>
  /\ Handled(kind, "modal" \notin present)

\* script.js 176-178 on such a page: line 178 needs the status region.
LoadedSubmit ==
  /\ Loaded /\ "formSubmit" \in attached
  /\ UNCHANGED <<navDisplay, ariaExpanded, ariaHidden>>
  /\ Handled("submit", "status" \notin present)

\* script.js 165-172 on such a page: line 166 needs the form's name field.
LoadedMailFallbackClick ==
  /\ Loaded /\ "mailFallbackClick" \in attached
  /\ UNCHANGED <<navDisplay, ariaExpanded, ariaHidden>>
  /\ Handled("mailFallback", "form" \notin present)

InitLoad ==
  /\ present \in SUBSET Expected
  /\ pc = "navToggle"
  /\ attached = {}
  /\ error = FALSE
  /\ NavIdle /\ FilterIdle /\ ModalIdle /\ FormIdle
  /\ ev = Event("load", "")

NextLoad ==
  \/ LoadNavToggle
  \/ LoadNavLinks
  \/ LoadTriggers
  \/ LoadModalClose
  \/ LoadModalBackdrop
  \/ LoadKeydown
  \/ LoadCardKeydown
  \/ LoadMailFallback
  \/ LoadForm
  \/ LoadedNavToggleClick
  \/ LoadedNavLinkClick
  \/ \E kind \in {"trigger", "cardEnter"} : LoadedOpen(kind)
  \/ \E kind \in {"closeClick", "modalClick", "escape"} : LoadedClose(kind)
  \/ LoadedSubmit
  \/ LoadedMailFallbackClick

SpecLoad == InitLoad /\ [][NextLoad]_vars

\* The element each guarded listener is attached to.
ElementOf(listener) ==
  CASE listener = "navToggleClick" -> "navToggle"
    [] listener = "navLinkClick" -> "nav"
    [] listener = "modalCloseClick" -> "modalClose"
    [] listener = "modalBackdropClick" -> "modal"
    [] listener = "mailFallbackClick" -> "mailFallback"
    [] listener = "formSubmit" -> "form"

\* C7: whichever expected elements the page lacks, start-up and every later
\* listener run without raising; once the script has run, a listener is
\* attached exactly when its element is present.
MissingElementsTolerated ==
  /\ ~error
  /\ Loaded =>
       \A l \in {"navToggleClick", "navLinkClick", "modalCloseClick",
                 "modalBackdropClick", "mailFallbackClick", "formSubmit"} :
         l \in attached <=> ElementOf(l) \in present
====
